---- MODULE Spec2Model ----
(***************************************************************************)
(* A model of src/index.js of cfn-modules/test: the retry engine (retry,   *)
(* sleep) and the bounded stack waiter (awaitStack).                       *)
(*                                                                         *)
(* Time is an integer number of milliseconds, as returned by Date.now().   *)
(* The operation handed to retry and the resource polled by the waiter are *)
(* the environment: each of their answers is a nondeterministic choice.    *)
(***************************************************************************)
EXTENDS Integers, Sequences, FiniteSets, TLC

\* ---------------------------------------------------------------------------
\* Bounds of the model
\* ---------------------------------------------------------------------------
\* largest try budget handed to retry
MaxTries == 3
\* largest delay (ms) handed to retry
MaxDelay == 1
\* longest time (ms) an invocation of the operation takes
MaxLatency == 1
\* how late (ms) the timer of sleep can fire
Lateness == {0, 1}
\* the clock (ms since the epoch) when a retry session starts: just before a
\* second boundary, which the session then crosses
StartTimes == {999}
\* one describeStacks request of an awaitStack run takes k * LatencyStep ms,
\* k in 0 .. MaxLatencySteps
LatencyStep == 50
MaxLatencySteps == 30

\* the outcomes of the requests of one probe change kind at most MaxSwitches
\* times (say from a 503 to a refused connection)
MaxSwitches == 1

\* describeStacks answers with at most MaxStacks stacks, each with at most
\* MaxOutputs outputs
MaxStacks == 2
MaxOutputs == 2

\* largest try budget of each of two sessions that run side by side
MaxTwoTries == 2
\* the delays handed to them
TwoDelays == {0, 1}

\* retry = async (fn, tries = 30, delay = 10000)
DefaultTries == 30
DefaultDelay == 10000

\* const WAIT_IN_SECONDS = 45;
WAIT_IN_SECONDS == 45
\* const MAX_WAIT_TIME_IN_MILLIS = 45 * 60 * 1000;
MAX_WAIT_TIME_IN_MILLIS == 45 * 60 * 1000

\* what the operation can resolve with
Values == {"ok", "uptime"}
\* what the operation can reject with: an Error object or any other value
Errs == { [isError |-> TRUE,  message |-> "saw http status code 503"],
          [isError |-> FALSE, message |-> "saw http status code 503"] }

NoValue == "none"
\* the err field of the outcome of an invocation that did not reject
NoError == [isError |-> FALSE, message |-> NoValue]

VARIABLES
    \* ---- retry session (src/index.js:95-109) ----
    pc,         \* position of the retry coroutine
    tries,      \* parameter tries
    delay,      \* parameter delay
    errors,     \* const errors = []  : sequence of {date, err}
    result,     \* the value retry resolved with
    thrown,     \* the message of the Error retry rejected with
    now,        \* the clock read by new Date()
    wakeAt,     \* the time the pending setTimeout of sleep is due
    \* history of the session, observed from outside
    calls,      \* number of invocations of fn
    sleeps,     \* number of calls of sleep
    inflight,   \* number of invocations of fn not yet settled
    started,    \* clock at each invocation of fn, in order
    outcomes,   \* how each invocation of fn settled, in order
    slept       \* the argument of each call of sleep, in order

VARIABLES
    \* ---- awaitStack (src/index.js:218-239) ----
    apc,            \* position of the awaitStack coroutine
    lat,            \* time (ms) one describeStacks request of this run takes
    waitForStackExistsStarted,
    waitForStackExistsEnded,
    existsMaxAttempts,  \* $waiter.maxAttempts of waitFor('stackExists')
    readyMaxAttempts,   \* $waiter.maxAttempts of waitFor('stackCreateComplete')
    existsPolls,    \* polls made by waitFor('stackExists')
    readyPolls,     \* polls made by waitFor('stackCreateComplete')
    existsOutcome,  \* how waitFor('stackExists') settled
    readyOutcome,   \* how waitFor('stackCreateComplete') settled
    awaitError,     \* the error awaitStack rejected with
    awaitResult     \* the value awaitStack resolved with

retryVars == <<pc, tries, delay, errors, result, thrown, wakeAt,
               calls, sleeps, inflight, started, outcomes, slept>>

awaitVars == <<apc, lat, waitForStackExistsStarted, waitForStackExistsEnded,
               existsMaxAttempts, readyMaxAttempts, existsPolls, readyPolls,
               existsOutcome, readyOutcome, awaitError, awaitResult>>

VARIABLES
    \* ---- probeHttpGet, probeHttpPost (src/index.js:127-151) ----
    method,     \* the request the probe makes: "GET" or "POST"
    http        \* how each request of the probe settled, in order

VARIABLES
    \* ---- packageAndDeploy (src/index.js:45-87) ----
    dpc,            \* position of the packageAndDeploy coroutine
    bucketSet,      \* CFN_PACKAGE_BUCKET_NAME is in process.env
    packagedFile,   \* const packagedFile = `/tmp/${stackName}`
    files,          \* the files that exist under /tmp
    packageRes,     \* how package() settled
    deployRes,      \* how deploy() settled
    out1,           \* const out1
    deployCalls,    \* number of calls of deploy
    unlinks,        \* number of calls of fs.unlinkSync
    unlinkThrew,    \* fs.unlinkSync threw
    deployResult,   \* the value packageAndDeploy resolved with
    deployError     \* the error packageAndDeploy rejected with

VARIABLES
    \* ---- getStackOutputs (src/index.js:241-252) ----
    opc,            \* position of the getStackOutputs coroutine
    described,      \* how describeStacks settled, and its data.Stacks
    lookups,        \* number of calls of describeStacks
    outputsResult,  \* the value getStackOutputs resolved with
    outputsError    \* the message of the error getStackOutputs rejected with

VARIABLES
    \* ---- two retry sessions running side by side ----
    sessions    \* for each session, the locals of its call of retry
                \* (pc, tries, delay, errors, result, thrown, wakeAt), the
                \* script of its operation and the invocations made (calls)

probeVars == <<method, http>>

deployVars == <<dpc, bucketSet, packagedFile, files, packageRes, deployRes,
                out1, deployCalls, unlinks, unlinkThrew, deployResult,
                deployError>>

outputsVars == <<opc, described, lookups, outputsResult, outputsError>>

\* the variables that neither retry nor awaitStack touches
auxVars == <<probeVars, deployVars, outputsVars, sessions>>

vars == <<retryVars, awaitVars, now, auxVars>>

\* ---------------------------------------------------------------------------
\* Pure helpers
\* ---------------------------------------------------------------------------

\* Date.prototype.toISOString, restricted to the part of the string that
\* varies in the model: the seconds and the three-digit millisecond field
\* of "YYYY-MM-DDTHH:mm:ss.sssZ".
toISOString(date) == [sec |-> date \div 1000, ms |-> date % 1000]

\* JSON.stringify(serializeError(err)): an Error object becomes an object
\* with its name and message, any other value is serialized as it is.
serializeError(err) ==
    IF err.isError
    THEN <<"{", "name", "Error", "message", err.message, "}">>
    ELSE <<err.message>>

\* variant: the lines are numbered from 0, `try[${i} | ...`
FormatErrors_ZeroBased(errs) ==
    [i \in 1..Len(errs) |->
        [try  |-> i - 1,
         date |-> toISOString(errs[i].date),
         json |-> serializeError(errs[i].err)]]

\* errors.map((error, i) => `try[${i+1} | ${date.toISOString()}]: ${json}`)
\* The lines are kept as a sequence; join('\n') puts them in this order.
FormatErrors(errs) ==
    [i \in 1..Len(errs) |->
        [try  |-> i,
         date |-> toISOString(errs[i].date),
         json |-> serializeError(errs[i].err)]]

\* Math.ceil(a / b) for an integer a and a positive integer b
Ceil(a, b) == -((-a) \div b)

\* Math.round(a / b) for an integer a and a positive integer b: the nearest
\* integer, a tie going up
Round(a, b) == (2 * a + b) \div (2 * b)

Max(a, b) == IF a >= b THEN a ELSE b

\* ---------------------------------------------------------------------------
\* retry
\* ---------------------------------------------------------------------------
\* no probe is running
ProbeIdle ==
    /\ method = NoValue
    /\ http = <<>>

\* no packageAndDeploy call is running
DeployIdle ==
    /\ dpc = "idle"
    /\ bucketSet = FALSE
    /\ packagedFile = NoValue
    /\ files = {}
    /\ packageRes = NoValue
    /\ deployRes = NoValue
    /\ out1 = NoValue
    /\ deployCalls = 0
    /\ unlinks = 0
    /\ unlinkThrew = FALSE
    /\ deployResult = NoValue
    /\ deployError = NoValue

\* no getStackOutputs call is running
OutputsIdle ==
    /\ opc = "idle"
    /\ described = [ok |-> FALSE, Stacks |-> <<>>]
    /\ lookups = 0
    /\ outputsResult = <<>>
    /\ outputsError = NoValue

\* nothing but retry or awaitStack is running
AuxIdle == ProbeIdle /\ DeployIdle /\ OutputsIdle /\ sessions = <<>>

\* no awaitStack call is running
AwaitIdle ==
    /\ apc = "idle"
    /\ lat = 0
    /\ waitForStackExistsStarted = 0
    /\ waitForStackExistsEnded = 0
    /\ existsMaxAttempts = 0
    /\ readyMaxAttempts = 0
    /\ existsPolls = 0
    /\ readyPolls = 0
    /\ existsOutcome = "pending"
    /\ readyOutcome = "pending"
    /\ awaitError = NoValue
    /\ awaitResult = <<>>

Init ==
    /\ pc = "loop"
    /\ tries \in 0..MaxTries
    /\ delay \in 0..MaxDelay
    /\ errors = <<>>
    /\ result = NoValue
    /\ thrown = <<>>
    /\ now \in StartTimes
    /\ wakeAt = 0
    /\ calls = 0
    /\ sleeps = 0
    /\ inflight = 0
    /\ started = <<>>
    /\ outcomes = <<>>
    /\ slept = <<>>
    /\ AwaitIdle
    /\ AuxIdle

\* variant: while (errors.length <= tries)
LoopCondition_OffByOne == Len(errors) <= tries

\* while (errors.length < tries)
LoopCondition == Len(errors) < tries

\* the loop condition holds: try { return await fn();   fn is invoked
RetryCall ==
    /\ pc = "loop"
    /\ LoopCondition
    /\ pc' = "awaitFn"
    /\ calls' = calls + 1
    /\ inflight' = inflight + 1
    /\ started' = Append(started, now)
    /\ UNCHANGED <<tries, delay, errors, result, thrown, now, wakeAt,
                   sleeps, outcomes, slept>>
    /\ UNCHANGED awaitVars
    /\ UNCHANGED auxVars

\* variant: the result is stored but the return is missing, the loop goes on
FnResolve_NoReturn ==
    \E v \in Values, took \in 0..MaxLatency :
        /\ pc = "awaitFn"
        /\ now' = now + took
        /\ inflight' = inflight - 1
        /\ outcomes' = Append(outcomes,
                [ok |-> TRUE, value |-> v, err |-> NoError, at |-> now'])
        /\ result' = v
        /\ pc' = "loop"
        /\ UNCHANGED <<tries, delay, errors, thrown, wakeAt, calls, sleeps,
                       started, slept>>
        /\ UNCHANGED awaitVars
        /\ UNCHANGED auxVars

\* fn() resolves with v after took ms: return await fn();
FnResolveWith(v, took) ==
    /\ pc = "awaitFn"
    /\ now' = now + took
    /\ inflight' = inflight - 1
    /\ outcomes' = Append(outcomes,
            [ok |-> TRUE, value |-> v, err |-> NoError, at |-> now'])
    /\ result' = v
    /\ pc' = "returned"
    /\ UNCHANGED <<tries, delay, errors, thrown, wakeAt, calls, sleeps,
                   started, slept>>
    /\ UNCHANGED awaitVars

FnResolve ==
    \E v \in Values, took \in 0..MaxLatency :
        /\ FnResolveWith(v, took)
        /\ UNCHANGED auxVars

\* variant: only Error objects are caught, any other rejection is rethrown
FnReject_Rethrow ==
    \E e \in Errs, took \in 0..MaxLatency :
        /\ pc = "awaitFn"
        /\ now' = now + took
        /\ inflight' = inflight - 1
        /\ outcomes' = Append(outcomes,
                [ok |-> FALSE, value |-> NoValue, err |-> e, at |-> now'])
        /\ IF e.isError
           THEN /\ errors' = Append(errors, [date |-> now', err |-> e])
                /\ pc' = "caught"
                /\ UNCHANGED thrown
           ELSE /\ pc' = "thrown"
                /\ thrown' = <<[try |-> 0, date |-> toISOString(now'),
                                json |-> serializeError(e)]>>
                /\ UNCHANGED errors
        /\ UNCHANGED <<tries, delay, result, wakeAt, calls, sleeps,
                       started, slept>>
        /\ UNCHANGED awaitVars
        /\ UNCHANGED auxVars

\* variant: the date is taken once, before the loop, and every record gets it
FnReject_StaleDate ==
    \E e \in Errs, took \in 0..MaxLatency :
        /\ pc = "awaitFn"
        /\ now' = now + took
        /\ inflight' = inflight - 1
        /\ outcomes' = Append(outcomes,
                [ok |-> FALSE, value |-> NoValue, err |-> e, at |-> now'])
        /\ errors' = Append(errors, [date |-> started[1], err |-> e])
        /\ pc' = "caught"
        /\ UNCHANGED <<tries, delay, result, thrown, wakeAt, calls, sleeps,
                       started, slept>>
        /\ UNCHANGED awaitVars
        /\ UNCHANGED auxVars

\* fn() rejects with e after took ms:
\* catch (err) { errors.push({date: new Date(), err});
FnRejectWith(e, took) ==
    /\ pc = "awaitFn"
    /\ now' = now + took
    /\ inflight' = inflight - 1
    /\ outcomes' = Append(outcomes,
            [ok |-> FALSE, value |-> NoValue, err |-> e, at |-> now'])
    /\ errors' = Append(errors, [date |-> now', err |-> e])
    /\ pc' = "caught"
    /\ UNCHANGED <<tries, delay, result, thrown, wakeAt, calls, sleeps,
                   started, slept>>
    /\ UNCHANGED awaitVars

FnReject ==
    \E e \in Errs, took \in 0..MaxLatency :
        /\ FnRejectWith(e, took)
        /\ UNCHANGED auxVars

\* variant: no sleep once the try budget is spent
SleepCall_SkipLast ==
    /\ pc = "caught"
    /\ IF LoopCondition
       THEN /\ sleeps' = sleeps + 1
            /\ slept' = Append(slept, delay)
            /\ wakeAt' = now + delay
            /\ pc' = "sleeping"
       ELSE /\ pc' = "loop"
            /\ UNCHANGED <<sleeps, slept, wakeAt>>
    /\ UNCHANGED <<tries, delay, errors, result, thrown, now, calls,
                   inflight, started, outcomes>>
    /\ UNCHANGED awaitVars
    /\ UNCHANGED auxVars

\* variant: await sleep(), the delay is not handed on and the timer is due
\* at once
SleepCall_NoDelay ==
    /\ pc = "caught"
    /\ sleeps' = sleeps + 1
    /\ slept' = Append(slept, 0)
    /\ wakeAt' = now
    /\ pc' = "sleeping"
    /\ UNCHANGED <<tries, delay, errors, result, thrown, now, calls,
                   inflight, started, outcomes>>
    /\ UNCHANGED awaitVars
    /\ UNCHANGED auxVars

\* await sleep(delay): sleep is called and sets its timer, setTimeout(.., ms)
SleepCall ==
    /\ pc = "caught"
    /\ sleeps' = sleeps + 1
    /\ slept' = Append(slept, delay)
    /\ wakeAt' = now + delay
    /\ pc' = "sleeping"
    /\ UNCHANGED <<tries, delay, errors, result, thrown, now, calls,
                   inflight, started, outcomes>>
    /\ UNCHANGED awaitVars
    /\ UNCHANGED auxVars

\* variant: the promise of sleep resolves at once, not when the timer fires
SleepDone_Early ==
    /\ pc = "sleeping"
    /\ pc' = "loop"
    /\ UNCHANGED <<tries, delay, errors, result, thrown, now, wakeAt, calls,
                   sleeps, inflight, started, outcomes, slept>>
    /\ UNCHANGED awaitVars
    /\ UNCHANGED auxVars

\* sleep: the timer fires, at its due time or late ms later, the promise
\* resolves and the loop condition is tested again
SleepDoneAfter(late) ==
    /\ pc = "sleeping"
    /\ now' = wakeAt + late
    /\ pc' = "loop"
    /\ UNCHANGED <<tries, delay, errors, result, thrown, wakeAt, calls,
                   sleeps, inflight, started, outcomes, slept>>
    /\ UNCHANGED awaitVars
    /\ UNCHANGED auxVars

SleepDone == \E late \in Lateness : SleepDoneAfter(late)

\* the loop ends: throw new Error(`retry failed: ${...}`)
RetryThrow ==
    /\ pc = "loop"
    /\ ~LoopCondition
    /\ thrown' = FormatErrors(errors)
    /\ pc' = "thrown"
    /\ UNCHANGED <<tries, delay, errors, result, now, wakeAt, calls, sleeps,
                   inflight, started, outcomes, slept>>
    /\ UNCHANGED awaitVars
    /\ UNCHANGED auxVars

Next ==
    \/ RetryCall
    \/ FnResolve
    \/ FnReject
    \/ SleepCall
    \/ SleepDone
    \/ RetryThrow

Spec == Init /\ [][Next]_vars

\* ---------------------------------------------------------------------------
\* Properties of retry
\* ---------------------------------------------------------------------------
Ended == pc \in {"returned", "thrown"}

\* the invocations of fn that have settled so far all failed
AllFailed == \A i \in 1..Len(outcomes) : ~outcomes[i].ok

\* the number of invocations of fn that failed
Failures == Cardinality({i \in 1..Len(outcomes) : ~outcomes[i].ok})

\* the ms since the epoch that an ISO string denotes
parseISO(iso) == iso.sec * 1000 + iso.ms

\* C1: with tries = N >= 1 and an operation that fails on every invocation,
\* retry invokes the operation exactly N times (and never more while it
\* runs), holds exactly N records when it ends, and ends by throwing the
\* "retry failed" error, never by returning a value.
C1_AlwaysFailing ==
    (tries >= 1 /\ AllFailed) =>
        /\ calls <= tries
        /\ Ended => /\ calls = tries
                    /\ Len(errors) = tries
                    /\ pc = "thrown"
                    /\ result = NoValue

C1_Witness ==
    /\ pc = "thrown"
    /\ tries >= 2
    /\ AllFailed
    /\ calls = tries

\* C2: when the operation fails on its first k-1 invocations and succeeds on
\* the k-th (k <= N), retry invokes it exactly k times, returns the k-th
\* invocation's result, makes no attempt after the success and surfaces no
\* record.
C2_SuccessOnKth ==
    \A k \in 1..Len(outcomes) :
        (outcomes[k].ok /\ \A i \in 1..(k - 1) : ~outcomes[i].ok) =>
            /\ k <= tries
            /\ calls = k
            /\ Len(outcomes) = k
            /\ Len(errors) = k - 1
            /\ pc = "returned"
            /\ result = outcomes[k].value
            /\ thrown = <<>>

C2_Witness ==
    /\ pc = "returned"
    /\ calls = 2
    /\ tries = 3
    /\ ~outcomes[1].ok
    /\ result = "ok"

\* C3 as stated: with tries = 1 the failure is raised right after the one
\* failed attempt, with no further attempt and no sleep in between.
C3_NoSleepBeforeExhaustion ==
    (pc = "thrown" /\ tries = 1) =>
        /\ calls = 1
        /\ Len(thrown) = 1
        /\ sleeps = 0

\* C3 amended: with tries = 1 retry makes exactly one attempt and, when it
\* fails, throws with exactly one recorded attempt, after exactly one sleep
\* of the configured delay and with no further attempt.
C3_OneAttemptThenSleep ==
    (pc = "thrown" /\ tries = 1) =>
        /\ calls = 1
        /\ Len(thrown) = 1
        /\ sleeps = 1
        /\ slept = <<delay>>
        /\ now >= outcomes[1].at + delay

C3_Witness ==
    /\ pc = "thrown"
    /\ tries = 1
    /\ delay > 0
    /\ sleeps = 1

\* C4: every failed attempt is first recorded and then followed by exactly
\* one call of sleep with the configured delay, the last failed attempt
\* included: retry throws after as many sleeps as failed attempts (N), and
\* returns on attempt k after k-1 sleeps.
C4_SleepAfterEveryFailure ==
    /\ Len(errors) = Failures
    /\ sleeps = Len(slept)
    /\ \A i \in 1..Len(slept) : slept[i] = delay
    /\ sleeps = (IF pc = "caught" THEN Len(errors) - 1 ELSE Len(errors))
    /\ pc = "thrown" => (sleeps = Failures /\ sleeps = calls /\ sleeps = tries)
    /\ pc = "returned" => sleeps = calls - 1

C4_Witness ==
    /\ pc = "thrown"
    /\ tries >= 2
    /\ delay > 0
    /\ sleeps = tries
    /\ slept[sleeps] = delay

\* C5: attempts are sequential: at most one invocation of the operation is
\* in flight, and attempt i+1 begins only after attempt i has settled, as a
\* failure, and the delay started after it has elapsed.
C5_Sequential ==
    /\ inflight \in {0, 1}
    /\ Len(started) = calls
    /\ Len(outcomes) = calls - inflight
    /\ \A i \in 1..(Len(started) - 1) :
           /\ ~outcomes[i].ok
           /\ started[i + 1] >= outcomes[i].at + delay
           /\ started[i + 1] >= started[i]

C5_Witness ==
    /\ Len(started) >= 2
    /\ delay > 0
    /\ inflight = 1

\* C6: no error of the operation escapes retry: it ends either by returning
\* the successful result or by throwing the one aggregated error, and it
\* throws only when the try budget is spent, every attempt of it having
\* failed and been recorded, whatever the kind of error.
C6_NoEscape ==
    /\ pc \in {"loop", "awaitFn", "caught", "sleeping", "returned", "thrown"}
    /\ pc = "returned" => (thrown = <<>> /\ result \in Values)
    /\ pc = "thrown" =>
           /\ result = NoValue
           /\ ~LoopCondition
           /\ Len(outcomes) = tries
           /\ AllFailed
           /\ Len(thrown) = tries
    /\ pc # "thrown" => thrown = <<>>

C6_Witness ==
    /\ pc = "thrown"
    /\ tries >= 2
    /\ \E i \in 1..Len(outcomes) : ~outcomes[i].err.isError
    /\ \E i \in 1..Len(outcomes) :
           /\ outcomes[i].err.isError
           /\ outcomes[i].err.message = "saw http status code 503"

\* C7: the message thrown after N failed attempts has exactly N entries, and
\* the i-th entry carries the index i, the time of the i-th failed attempt
\* and the error of the i-th attempt, told apart from every other error.
C7_MessageHistory ==
    pc = "thrown" =>
        /\ Len(thrown) = Failures
        /\ \A i \in 1..Len(thrown) :
               /\ thrown[i].try = i
               /\ parseISO(thrown[i].date) = outcomes[i].at
               /\ thrown[i].json = serializeError(outcomes[i].err)
               /\ \A e \in Errs :
                      serializeError(e) = thrown[i].json => e = outcomes[i].err

C7_Witness ==
    /\ pc = "thrown"
    /\ Len(thrown) >= 2
    /\ thrown[1].json # thrown[2].json
    /\ thrown[1].date.sec # thrown[2].date.sec


\* C16: in the message thrown with a delay above 0, the timestamps of the
\* entries are pairwise distinct and increase in attempt order, each later
\* than the one before it by the delay or more.
C16_IncreasingTimestamps ==
    (pc = "thrown" /\ delay > 0) =>
        /\ \A i \in 1..(Len(thrown) - 1) :
               parseISO(thrown[i + 1].date) >= parseISO(thrown[i].date) + delay
        /\ \A i, j \in 1..Len(thrown) :
               i # j => thrown[i].date # thrown[j].date

\* two entries exactly one delay apart
C16_Witness ==
    /\ pc = "thrown"
    /\ delay > 0
    /\ Len(thrown) >= 2
    /\ parseISO(thrown[2].date) = parseISO(thrown[1].date) + delay

\* The session under the scheduling of the runtime: a continuation that is
\* ready runs, every invocation of the operation settles and every timer
\* fires.
FairSpec ==
    /\ Spec
    /\ WF_vars(RetryCall \/ SleepCall \/ RetryThrow)
    /\ WF_vars(FnResolve \/ FnReject)
    /\ WF_vars(SleepDone)

\* C20: every retry session ends, by returning or by throwing, after at most
\* tries attempts; at every moment there are as many records as failed
\* attempts, and never more than tries.
C20_Terminates ==
    /\ <>Ended
    /\ [](/\ calls <= tries
          /\ Len(errors) = Failures
          /\ Len(errors) <= tries)

C20_Witness ==
    /\ Ended
    /\ calls = tries
    /\ tries >= 2
    /\ outcomes[tries].ok

\* ---------------------------------------------------------------------------
\* awaitStack
\*
\* cloudformation.waitFor(state, {$waiter: {delay, maxAttempts}}) is the
\* polling primitive of the SDK: it polls the stack, resolves when a poll
\* answers "success", rejects when a poll answers "failure", and otherwise
\* waits delay seconds and polls again, until maxAttempts polls have been
\* made, when it rejects with a timeout.  What the stack answers is the
\* environment's choice.
\* ---------------------------------------------------------------------------
\* no retry session is running
RetryIdle ==
    /\ pc = "idle"
    /\ tries = 0
    /\ delay = 0
    /\ errors = <<>>
    /\ result = NoValue
    /\ thrown = <<>>
    /\ wakeAt = 0
    /\ calls = 0
    /\ sleeps = 0
    /\ inflight = 0
    /\ started = <<>>
    /\ outcomes = <<>>
    /\ slept = <<>>

\* maxAttempts: Math.ceil(MAX_WAIT_TIME_IN_MILLIS / 1000 / WAIT_IN_SECONDS)
\* variant: the division by 1000 is left out
ExistsMaxAttempts_Millis == Ceil(MAX_WAIT_TIME_IN_MILLIS, WAIT_IN_SECONDS)

\* maxAttempts: Math.ceil(MAX_WAIT_TIME_IN_MILLIS / 1000 / WAIT_IN_SECONDS)
ExistsMaxAttempts == Ceil(MAX_WAIT_TIME_IN_MILLIS, 1000 * WAIT_IN_SECONDS)

\* awaitStack is called: const waitForStackExistsStarted = Date.now();
\* and waitFor('stackExists') is set up with its maxAttempts
InitAwait ==
    /\ RetryIdle
    /\ AuxIdle
    /\ now = 0
    /\ apc = "stackExists"
    /\ lat \in {k * LatencyStep : k \in 0..MaxLatencySteps}
    /\ waitForStackExistsStarted = now
    /\ waitForStackExistsEnded = 0
    /\ existsMaxAttempts = ExistsMaxAttempts
    /\ readyMaxAttempts = 0
    /\ existsPolls = 0
    /\ readyPolls = 0
    /\ existsOutcome = "pending"
    /\ readyOutcome = "pending"
    /\ awaitError = NoValue
    /\ awaitResult = <<>>

\* the clock after one more poll of a waiter that has made polls polls: the
\* waiter waits its delay, WAIT_IN_SECONDS, before every poll but the first
AfterPoll(polls) ==
    now + (IF polls > 0 THEN 1000 * WAIT_IN_SECONDS ELSE 0) + lat

\* variant: Math.round((MAX_WAIT_TIME_IN_MILLIS - d) / 1000), no Math.max
maxWaitTimeInSeconds_NoClamp(waitForStackDurationInMillis) ==
    Round(MAX_WAIT_TIME_IN_MILLIS - waitForStackDurationInMillis, 1000)

\* variant: the time already spent is taken for the time that is left
maxWaitTimeInSeconds_Elapsed(waitForStackDurationInMillis) ==
    Max(WAIT_IN_SECONDS, Round(waitForStackDurationInMillis, 1000))

\* Math.max(WAIT_IN_SECONDS, Math.round((MAX_WAIT_TIME_IN_MILLIS - d) / 1000))
maxWaitTimeInSeconds(waitForStackDurationInMillis) ==
    Max(WAIT_IN_SECONDS,
        Round(MAX_WAIT_TIME_IN_MILLIS - waitForStackDurationInMillis, 1000))

\* a poll of waitFor('stackExists') answers "success": the first await
\* resolves, the remaining time is computed and waitFor('stackCreateComplete')
\* is set up with its maxAttempts
ExistsSuccess ==
    /\ apc = "stackExists"
    /\ existsPolls < existsMaxAttempts
    /\ existsPolls' = existsPolls + 1
    /\ now' = AfterPoll(existsPolls)
    /\ existsOutcome' = "success"
    /\ waitForStackExistsEnded' = now'
    /\ readyMaxAttempts' =
          Ceil(maxWaitTimeInSeconds(waitForStackExistsEnded' - waitForStackExistsStarted),
               WAIT_IN_SECONDS)
    /\ apc' = "stackCreateComplete"
    /\ UNCHANGED <<lat, waitForStackExistsStarted, existsMaxAttempts,
                   readyPolls, readyOutcome, awaitError, awaitResult>>
    /\ UNCHANGED retryVars
    /\ UNCHANGED auxVars

\* variant: the rejection of the first waitFor is swallowed, awaitStack goes
\* on to the second wait with the time that is left
ExistsRetry_Swallow ==
    /\ apc = "stackExists"
    /\ existsPolls < existsMaxAttempts
    /\ existsPolls' = existsPolls + 1
    /\ now' = AfterPoll(existsPolls)
    /\ IF existsPolls' < existsMaxAttempts
       THEN UNCHANGED <<apc, existsOutcome, waitForStackExistsEnded,
                        readyMaxAttempts>>
       ELSE /\ existsOutcome' = "WaitTimeout"
            /\ waitForStackExistsEnded' = now'
            /\ readyMaxAttempts' =
                  Ceil(maxWaitTimeInSeconds(waitForStackExistsEnded' - waitForStackExistsStarted),
                       WAIT_IN_SECONDS)
            /\ apc' = "stackCreateComplete"
    /\ UNCHANGED <<lat, waitForStackExistsStarted, existsMaxAttempts,
                   readyPolls, readyOutcome, awaitError, awaitResult>>
    /\ UNCHANGED retryVars
    /\ UNCHANGED auxVars

\* a poll of waitFor('stackExists') answers "retry": the waiter polls again,
\* or rejects when that was its last attempt, and awaitStack rejects with it
ExistsRetry ==
    /\ apc = "stackExists"
    /\ existsPolls < existsMaxAttempts
    /\ existsPolls' = existsPolls + 1
    /\ now' = AfterPoll(existsPolls)
    /\ IF existsPolls' < existsMaxAttempts
       THEN UNCHANGED <<apc, existsOutcome, awaitError>>
       ELSE /\ existsOutcome' = "WaitTimeout"
            /\ apc' = "failed"
            /\ awaitError' = existsOutcome'
    /\ UNCHANGED <<lat, waitForStackExistsStarted, waitForStackExistsEnded,
                   existsMaxAttempts, readyMaxAttempts, readyPolls,
                   readyOutcome, awaitResult>>
    /\ UNCHANGED retryVars
    /\ UNCHANGED auxVars

\* a poll of waitFor('stackExists') fails for good (a request error that is
\* not retried): the waiter rejects and awaitStack rejects with it
ExistsFailure ==
    /\ apc = "stackExists"
    /\ existsPolls < existsMaxAttempts
    /\ existsPolls' = existsPolls + 1
    /\ now' = AfterPoll(existsPolls)
    /\ existsOutcome' = "WaitFailure"
    /\ apc' = "failed"
    /\ awaitError' = existsOutcome'
    /\ UNCHANGED <<lat, waitForStackExistsStarted, waitForStackExistsEnded,
                   existsMaxAttempts, readyMaxAttempts, readyPolls,
                   readyOutcome, awaitResult>>
    /\ UNCHANGED retryVars
    /\ UNCHANGED auxVars

\* a poll of waitFor('stackCreateComplete') answers "success": awaitStack
\* returns its record of the two waits
ReadySuccess ==
    /\ apc = "stackCreateComplete"
    /\ readyPolls < readyMaxAttempts
    /\ readyPolls' = readyPolls + 1
    /\ now' = AfterPoll(readyPolls)
    /\ readyOutcome' = "success"
    /\ apc' = "returned"
    /\ awaitResult' = <<"waitFor(stackCreateComplete)", "waitFor(stackCreateComplete)">>
    /\ UNCHANGED <<lat, waitForStackExistsStarted, waitForStackExistsEnded,
                   existsMaxAttempts, readyMaxAttempts, existsPolls,
                   existsOutcome, awaitError>>
    /\ UNCHANGED retryVars
    /\ UNCHANGED auxVars

\* a poll of waitFor('stackCreateComplete') answers "retry"
ReadyRetry ==
    /\ apc = "stackCreateComplete"
    /\ readyPolls < readyMaxAttempts
    /\ readyPolls' = readyPolls + 1
    /\ now' = AfterPoll(readyPolls)
    /\ IF readyPolls' < readyMaxAttempts
       THEN UNCHANGED <<apc, readyOutcome, awaitError>>
       ELSE /\ readyOutcome' = "WaitTimeout"
            /\ apc' = "failed"
            /\ awaitError' = readyOutcome'
    /\ UNCHANGED <<lat, waitForStackExistsStarted, waitForStackExistsEnded,
                   existsMaxAttempts, readyMaxAttempts, existsPolls,
                   existsOutcome, awaitResult>>
    /\ UNCHANGED retryVars
    /\ UNCHANGED auxVars

\* a poll of waitFor('stackCreateComplete') answers "failure" (the stack
\* rolled back, or a request error that is not retried)
ReadyFailure ==
    /\ apc = "stackCreateComplete"
    /\ readyPolls < readyMaxAttempts
    /\ readyPolls' = readyPolls + 1
    /\ now' = AfterPoll(readyPolls)
    /\ readyOutcome' = "WaitFailure"
    /\ apc' = "failed"
    /\ awaitError' = readyOutcome'
    /\ UNCHANGED <<lat, waitForStackExistsStarted, waitForStackExistsEnded,
                   existsMaxAttempts, readyMaxAttempts, existsPolls,
                   existsOutcome, awaitResult>>
    /\ UNCHANGED retryVars
    /\ UNCHANGED auxVars

NextAwait ==
    \/ ExistsSuccess
    \/ ExistsRetry
    \/ ExistsFailure
    \/ ReadySuccess
    \/ ReadyRetry
    \/ ReadyFailure

SpecAwait == InitAwait /\ [][NextAwait]_vars

\* ---------------------------------------------------------------------------
\* Properties of awaitStack
\* ---------------------------------------------------------------------------
\* the time the existence phase took, as awaitStack measures it
waitForStackDurationInMillis ==
    waitForStackExistsEnded - waitForStackExistsStarted

\* C8: the ready phase starts only after the existence phase has succeeded;
\* when the existence phase fails or times out, awaitStack rejects with that
\* same failure, makes no ready poll and returns no value.
C8_ReadyOnlyAfterExists ==
    /\ (apc = "stackCreateComplete" \/ readyPolls > 0 \/ readyOutcome # "pending")
          => existsOutcome = "success"
    /\ existsOutcome \in {"WaitTimeout", "WaitFailure"} =>
          /\ apc = "failed"
          /\ awaitError = existsOutcome
          /\ readyPolls = 0
          /\ awaitResult = <<>>
    /\ apc = "returned" => (existsOutcome = "success" /\ readyOutcome = "success")

C8_Witness ==
    /\ apc = "failed"
    /\ existsOutcome = "WaitFailure"
    /\ existsPolls >= 2

\* C9: the existence phase makes at most 60 polls, 45 seconds apart: when
\* the stack never reports existence, awaitStack makes exactly 60 existence
\* polls, then rejects with the timeout, and never enters the ready phase.
C9_SixtyExistencePolls ==
    /\ existsMaxAttempts = 60
    /\ existsPolls <= 60
    /\ apc = "stackExists" => existsPolls < 60
    /\ existsOutcome = "WaitTimeout" =>
          /\ existsPolls = 60
          /\ now - waitForStackExistsStarted >= 59 * 45 * 1000
          /\ apc = "failed"
          /\ awaitError = "WaitTimeout"
          /\ readyPolls = 0
          /\ readyOutcome = "pending"

C9_Witness ==
    /\ existsOutcome = "WaitTimeout"
    /\ existsPolls = 60
    /\ apc = "failed"

\* C10 as stated: the attempt cap of the ready phase is the ceiling of the
\* exact remaining budget, 45 minutes less the duration d of the existence
\* phase in ms, divided by 45 seconds.
C10_ExactCeiling ==
    existsOutcome = "success" =>
        readyMaxAttempts =
            Ceil(MAX_WAIT_TIME_IN_MILLIS - waitForStackDurationInMillis,
                 1000 * WAIT_IN_SECONDS)

\* C10 amended: the attempt cap n of the ready phase is the ceiling of S / 45,
\* where S is the remaining budget (45 minutes less d) rounded to the nearest
\* whole second, a tie going up, and raised to 45 when it is less.
C10_RoundedClampedCeiling ==
    existsOutcome = "success" =>
        LET remaining == 2700000 - waitForStackDurationInMillis
            whole == remaining \div 1000
        IN  \E S0 \in (whole - 1)..(whole + 1) :
                /\ 1000 * S0 - 500 <= remaining
                /\ remaining < 1000 * S0 + 500
                /\ LET S == IF S0 < 45 THEN 45 ELSE S0
                       n == readyMaxAttempts
                   IN  /\ 45 * (n - 1) < S
                       /\ S <= 45 * n

\* the existence phase succeeded only when the whole budget was used up
C10_Witness ==
    /\ existsOutcome = "success"
    /\ waitForStackDurationInMillis >= MAX_WAIT_TIME_IN_MILLIS
    /\ readyMaxAttempts = 1

\* the time awaitStack has taken so far
awaitElapsed == now - waitForStackExistsStarted

\* C11: whatever the stack answers, the time awaitStack spends in the two
\* phases together is at most 45 minutes plus one poll interval of 45 s.
C11_TotalWithinBudget ==
    awaitElapsed <= MAX_WAIT_TIME_IN_MILLIS + 1000 * WAIT_IN_SECONDS

\* C12: the value awaitStack returns names the two waits in the order they
\* ran, the wait for stackExists and then the wait for stackCreateComplete.
C12_NamesBothStages ==
    apc = "returned" =>
        awaitResult = <<"waitFor(stackExists)", "waitFor(stackCreateComplete)">>

C19_CapBetween1And60 ==
    /\ existsOutcome = "success" =>
           (readyMaxAttempts >= 1 /\ readyMaxAttempts <= 60)
    /\ apc = "stackCreateComplete" => readyPolls < readyMaxAttempts
    /\ readyOutcome # "pending" => readyPolls >= 1

C19_Witness ==
    /\ waitForStackDurationInMillis > MAX_WAIT_TIME_IN_MILLIS
    /\ readyOutcome # "pending"
    /\ readyPolls = 1

\* ---------------------------------------------------------------------------
\* probeHttpGet, probeHttpPost
\*
\* Both call retry with the default tries and delay on a function that
\* makes the request with axios and re-signals a rejection that carries a
\* response.  axios resolves on a response with a 2xx status and rejects on
\* any other response (err.response is set) and on a transport error (it is
\* not).
\* ---------------------------------------------------------------------------
\* how a request can settle
HttpOutcomes ==
    { [hasResponse |-> TRUE,  status |-> 200, message |-> "OK"],
      [hasResponse |-> TRUE,  status |-> 404, message |-> "Request failed with status code 404"],
      [hasResponse |-> TRUE,  status |-> 503, message |-> "Request failed with status code 503"],
      [hasResponse |-> FALSE, status |-> 0,   message |-> "connect ECONNREFUSED"] }

\* axios resolves the request
HttpResolves(o) == o.hasResponse /\ o.status >= 200 /\ o.status < 300

\* `saw http status code ${err.response.status}`
StatusMessage(status) == "saw http status code " \o ToString(status)

\* variant: the rejection of axios is passed on as it is
HttpCatch_NoWrap(o) == [isError |-> TRUE, message |-> o.message]

\* .catch(err => { if (err.response && err.response.status) {
\*   return Promise.reject(new Error(`saw http status code ${...}`));
\* } else { return Promise.reject(err); } })
HttpCatch(o) ==
    IF o.hasResponse /\ o.status # 0
    THEN [isError |-> TRUE, message |-> StatusMessage(o.status)]
    ELSE [isError |-> TRUE, message |-> o.message]

\* the number of places where the outcomes in h change kind
Switches(h) == Cardinality({i \in 1..(Len(h) - 1) : h[i] # h[i + 1]})

\* probeHttpGet(url) or probeHttpPost(url) is called: retry(() => ...)
InitProbe ==
    /\ pc = "loop"
    /\ tries = DefaultTries
    /\ delay = DefaultDelay
    /\ errors = <<>>
    /\ result = NoValue
    /\ thrown = <<>>
    /\ now \in StartTimes
    /\ wakeAt = 0
    /\ calls = 0
    /\ sleeps = 0
    /\ inflight = 0
    /\ started = <<>>
    /\ outcomes = <<>>
    /\ slept = <<>>
    /\ AwaitIdle
    /\ method \in {"GET", "POST"}
    /\ http = <<>>
    /\ DeployIdle
    /\ OutputsIdle
    /\ sessions = <<>>

\* axios.get(url) or axios.post(url) resolves: the response is the result
HttpSuccess ==
    \E o \in HttpOutcomes :
        /\ HttpResolves(o)
        /\ FnResolveWith(o.message, 0)
        /\ http' = Append(http, o)
        /\ UNCHANGED <<method, deployVars, outputsVars, sessions>>

\* axios.get(url) or axios.post(url) rejects: the catch handler re-signals
HttpFailure ==
    \E o \in HttpOutcomes :
        /\ ~HttpResolves(o)
        /\ Switches(Append(http, o)) <= MaxSwitches
        /\ FnRejectWith(HttpCatch(o), 0)
        /\ http' = Append(http, o)
        /\ UNCHANGED <<method, deployVars, outputsVars, sessions>>

\* the timer of sleep fires when it is due
ProbeSleepDone == SleepDoneAfter(0)

NextProbe ==
    \/ RetryCall
    \/ HttpSuccess
    \/ HttpFailure
    \/ SleepCall
    \/ ProbeSleepDone
    \/ RetryThrow

SpecProbe == InitProbe /\ [][NextProbe]_vars

\* C13: the probe, run with 30 tries and a delay of 10000 ms, returns the
\* first response axios resolves with and stops; every other response costs
\* one attempt and is recorded as an error that carries its status code,
\* every transport error costs one attempt and is recorded as it is, and
\* after 30 failed attempts the probe throws the aggregated error.
C13_HttpProbe ==
    /\ tries = 30
    /\ delay = 10000
    /\ Len(http) = Len(outcomes)
    /\ Len(http) = calls - inflight
    /\ Len(errors) = Failures
    /\ \A i \in 1..Len(http) :
          IF HttpResolves(http[i])
          THEN /\ i = Len(http)
               /\ pc = "returned"
               /\ outcomes[i].ok
               /\ result = http[i].message
          ELSE /\ ~outcomes[i].ok
               /\ i <= Len(errors)
               /\ errors[i].err = outcomes[i].err
               /\ IF http[i].hasResponse
                  THEN /\ errors[i].err.isError
                       /\ \A st \in {o.status : o \in HttpOutcomes} :
                              errors[i].err.message = StatusMessage(st)
                                <=> st = http[i].status
                  ELSE errors[i].err.message = http[i].message
    /\ pc = "returned" => HttpResolves(http[Len(http)])
    /\ pc = "thrown" =>
          /\ calls = 30
          /\ Len(thrown) = 30
          /\ \A i \in 1..30 : ~HttpResolves(http[i])
    /\ pc \in {"loop", "awaitFn", "caught", "sleeping"} => calls <= 30

\* all 30 attempts failed, some on a 503 and some on a refused connection
C13_Witness ==
    /\ pc = "thrown"
    /\ Len(http) = 30
    /\ \E i \in 1..30 : http[i].status = 503
    /\ \E i \in 1..30 : ~http[i].hasResponse
    /\ method = "POST"

\* ---------------------------------------------------------------------------
\* packageAndDeploy
\* ---------------------------------------------------------------------------
StackNames == {"cfn-test-0a", "cfn-test-0b", "cfn-test-0c"}

\* what the two aws commands can print
PackageOutputs == {"package: uploaded\n", "package: unchanged\n"}
DeployOutputs == {"deploy: created\n", "deploy: no changes\n"}
\* what exec can reject with when the deploy command fails
DeployFailures == {"deploy command failed", "deploy command killed"}

\* what is left alone by packageAndDeploy
deployFrame == <<retryVars, awaitVars, now, probeVars, outputsVars, sessions>>

\* packageAndDeploy(templateFile, stackName, ..) is called
InitDeploy ==
    /\ pc = "idle" /\ tries = 0 /\ delay = 0 /\ errors = <<>>
    /\ result = NoValue /\ thrown = <<>> /\ wakeAt = 0 /\ calls = 0
    /\ sleeps = 0 /\ inflight = 0 /\ started = <<>> /\ outcomes = <<>>
    /\ slept = <<>>
    /\ now = 0
    /\ AwaitIdle
    /\ ProbeIdle
    /\ OutputsIdle
    /\ sessions = <<>>
    /\ dpc = "package"
    /\ bucketSet \in BOOLEAN
    /\ \E stackName \in StackNames :
          /\ packagedFile = "/tmp/" \o stackName
          /\ files \in {{}, {packagedFile}}
    /\ packageRes = NoValue
    /\ deployRes = NoValue
    /\ out1 = NoValue
    /\ deployCalls = 0
    /\ unlinks = 0
    /\ unlinkThrew = FALSE
    /\ deployResult = NoValue
    /\ deployError = NoValue

\* const out1 = await package(templateFile, packagedFile);
\* it rejects when the bucket name is not set or when the command fails,
\* with or without the output file written, else it writes the file
Package ==
    /\ dpc = "package"
    /\ IF ~bucketSet
       THEN /\ packageRes' = "environment variable CFN_PACKAGE_BUCKET_NAME not set"
            /\ dpc' = "finally"
            /\ UNCHANGED <<files, out1>>
       ELSE \/ \E out \in PackageOutputs :
                 /\ packageRes' = "ok"
                 /\ out1' = out
                 /\ files' = files \cup {packagedFile}
                 /\ dpc' = "deploy"
            \/ /\ packageRes' = "package command failed"
               /\ files' \in {files, files \cup {packagedFile}}
               /\ dpc' = "finally"
               /\ UNCHANGED out1
    /\ UNCHANGED <<bucketSet, packagedFile, deployRes, deployCalls, unlinks,
                   unlinkThrew, deployResult, deployError>>
    /\ UNCHANGED deployFrame

\* const out2 = await deploy(packagedFile, stackName, ..);
\* return `${out1}${out2}`;   the return is held until finally has run
Deploy ==
    /\ dpc = "deploy"
    /\ deployCalls' = deployCalls + 1
    /\ \/ \E out2 \in DeployOutputs :
             /\ deployRes' = "ok"
             /\ deployResult' = out1 \o out2
       \/ /\ deployRes' \in DeployFailures
          /\ UNCHANGED deployResult
    /\ dpc' = "finally"
    /\ UNCHANGED <<bucketSet, packagedFile, files, packageRes, out1, unlinks,
                   unlinkThrew, deployError>>
    /\ UNCHANGED deployFrame

\* the completion of the try block once finally has run: the held return
\* value, or the error of package or deploy
Completion ==
    IF packageRes = "ok" /\ deployRes = "ok"
    THEN /\ dpc' = "returned"
         /\ UNCHANGED <<deployResult, deployError>>
    ELSE /\ dpc' = "thrown"
         /\ deployError' = (IF packageRes = "ok" THEN deployRes ELSE packageRes)
         /\ UNCHANGED deployResult

\* variant: the error of fs.unlinkSync is not caught
Cleanup_Propagate ==
    /\ dpc = "finally"
    /\ unlinks' = unlinks + 1
    /\ \/ /\ packagedFile \in files
          /\ files' = files \ {packagedFile}
          /\ unlinkThrew' = FALSE
          /\ Completion
       \/ /\ unlinkThrew' = TRUE
          /\ dpc' = "thrown"
          /\ deployError' = "unlink failed"
          /\ UNCHANGED <<files, deployResult>>
    /\ UNCHANGED <<bucketSet, packagedFile, packageRes, deployRes, out1,
                   deployCalls>>
    /\ UNCHANGED deployFrame

\* finally { try { fs.unlinkSync(packagedFile); } catch (e) { } }
\* unlinkSync removes the file, or throws (always when there is no file)
Cleanup ==
    /\ dpc = "finally"
    /\ unlinks' = unlinks + 1
    /\ \/ /\ packagedFile \in files
          /\ files' = files \ {packagedFile}
          /\ unlinkThrew' = FALSE
       \/ /\ unlinkThrew' = TRUE
          /\ UNCHANGED files
    /\ Completion
    /\ UNCHANGED <<bucketSet, packagedFile, packageRes, deployRes, out1,
                   deployCalls>>
    /\ UNCHANGED deployFrame

NextDeploy ==
    \/ Package
    \/ Deploy
    \/ Cleanup

SpecDeploy == InitDeploy /\ [][NextDeploy]_vars

\* C17: packageAndDeploy calls unlinkSync on the packaged file exactly once
\* on every exit path; whether that call throws or not, the caller gets the
\* two outputs joined when both steps succeeded and the error of package or
\* of deploy otherwise; deploy is not called when package failed.
C17_CleanupOnEveryPath ==
    /\ unlinks <= 1
    /\ packageRes \notin {NoValue, "ok"} => deployCalls = 0
    /\ deployCalls <= 1
    /\ dpc \in {"package", "deploy", "finally"} =>
          /\ unlinks = 0
          /\ deployError = NoValue
    /\ dpc \in {"returned", "thrown"} => unlinks = 1
    /\ dpc = "returned" =>
          /\ packageRes = "ok" /\ deployRes = "ok"
          /\ deployError = NoValue
          /\ \E o2 \in DeployOutputs : deployResult = out1 \o o2
    /\ dpc = "thrown" =>
          /\ deployResult = NoValue
          /\ IF packageRes # "ok"
             THEN deployError = packageRes /\ deployRes = NoValue
             ELSE deployError = deployRes /\ deployRes # "ok"

\* deploy failed and the cleanup threw as well
C17_Witness ==
    /\ dpc = "thrown"
    /\ deployRes = "deploy command failed"
    /\ unlinkThrew
    /\ unlinks = 1

\* ---------------------------------------------------------------------------
\* getStackOutputs
\* ---------------------------------------------------------------------------
OutputKeys == {"Arn", "Url"}
OutputValues == {"v1", "v2"}

\* an output of a stack
Output == [OutputKey : OutputKeys, OutputValue : OutputValues]

\* the Outputs of a stack: its output keys are distinct
OutputLists ==
    {<<>>} \cup
    UNION { {l \in [1..n -> Output] :
                \A i, j \in 1..n : i # j => l[i].OutputKey # l[j].OutputKey}
            : n \in 1..MaxOutputs }

\* data.Stacks
StackLists ==
    {<<>>} \cup UNION { [1..n -> [Outputs : OutputLists]] : n \in 1..MaxStacks }

\* what is left alone by getStackOutputs
outputsFrame == <<retryVars, awaitVars, now, probeVars, deployVars, sessions>>

\* getStackOutputs(stackName) is called
InitOutputs ==
    /\ pc = "idle" /\ tries = 0 /\ delay = 0 /\ errors = <<>>
    /\ result = NoValue /\ thrown = <<>> /\ wakeAt = 0 /\ calls = 0
    /\ sleeps = 0 /\ inflight = 0 /\ started = <<>> /\ outcomes = <<>>
    /\ slept = <<>>
    /\ now = 0
    /\ AwaitIdle
    /\ ProbeIdle
    /\ DeployIdle
    /\ sessions = <<>>
    /\ opc = "describeStacks"
    /\ described = [ok |-> FALSE, Stacks |-> <<>>]
    /\ lookups = 0
    /\ outputsResult = <<>>
    /\ outputsError = NoValue

\* Outputs.reduce((outputs, output) => {
\*   outputs[output.OutputKey] = output.OutputValue; return outputs; }, {})
RECURSIVE ReduceOutputs(_, _)
ReduceOutputs(list, outputs) ==
    IF list = <<>>
    THEN outputs
    ELSE LET output == Head(list)
         IN  ReduceOutputs(Tail(list),
                [k \in DOMAIN outputs \cup {output.OutputKey} |->
                    IF k = output.OutputKey THEN output.OutputValue
                                            ELSE outputs[k]])

\* variant: if (data.Stacks.length < 1)
UnexpectedCount_OnlyEmpty(stacks) == Len(stacks) < 1

\* if (data.Stacks.length !== 1)
UnexpectedCount(stacks) == Len(stacks) # 1

\* describeStacks rejects: the await throws and getStackOutputs rejects
DescribeFails ==
    /\ opc = "describeStacks"
    /\ lookups' = lookups + 1
    /\ described' = [ok |-> FALSE, Stacks |-> <<>>]
    /\ outputsError' = "describeStacks failed"
    /\ opc' = "thrown"
    /\ UNCHANGED outputsResult
    /\ UNCHANGED outputsFrame

\* describeStacks resolves with data: the count of data.Stacks is tested and
\* the outputs of the one stack are reduced to an object
DescribeResolves ==
    \E stacks \in StackLists :
        /\ opc = "describeStacks"
        /\ lookups' = lookups + 1
        /\ described' = [ok |-> TRUE, Stacks |-> stacks]
        /\ IF UnexpectedCount(stacks)
           THEN /\ outputsError' = "expected one stack, saw " \o ToString(Len(stacks))
                /\ opc' = "thrown"
                /\ UNCHANGED outputsResult
           ELSE /\ outputsResult' = ReduceOutputs(stacks[1].Outputs, <<>>)
                /\ opc' = "returned"
                /\ UNCHANGED outputsError
        /\ UNCHANGED outputsFrame

NextOutputs ==
    \/ DescribeFails
    \/ DescribeResolves

SpecOutputs == InitOutputs /\ [][NextOutputs]_vars

\* C18: when describeStacks answers with no stack or with more than one,
\* getStackOutputs throws "expected one stack", after that one lookup; when
\* it answers with exactly one stack, getStackOutputs returns the mapping
\* from each output key of that stack to its value.
C18_OneStackOrError ==
    /\ lookups <= 1
    /\ opc # "describeStacks" => lookups = 1
    /\ (described.ok /\ Len(described.Stacks) # 1) =>
          /\ opc = "thrown"
          /\ outputsResult = <<>>
          /\ \/ outputsError = "expected one stack, saw 0" /\ described.Stacks = <<>>
             \/ \E n \in 2..(MaxStacks + 1) :
                    /\ Len(described.Stacks) = n
                    /\ outputsError = "expected one stack, saw " \o ToString(n)
    /\ (described.ok /\ Len(described.Stacks) = 1) =>
          /\ opc = "returned"
          /\ outputsError = NoValue
          /\ LET outs == described.Stacks[1].Outputs
             IN  /\ DOMAIN outputsResult = {outs[i].OutputKey : i \in 1..Len(outs)}
                 /\ \A i \in 1..Len(outs) :
                        outputsResult[outs[i].OutputKey] = outs[i].OutputValue

\* two stacks came back
C18_Witness ==
    /\ opc = "thrown"
    /\ described.ok
    /\ Len(described.Stacks) = 2
    /\ Len(described.Stacks[1].Outputs) = 2

\* ---------------------------------------------------------------------------
\* Two calls of retry running side by side on one event loop and one clock.
\* Every call of retry has its own tries, delay and errors (src/index.js:95-96);
\* the operation of session s follows a script, fixed when the session
\* starts, that tells for each invocation whether it resolves, and it
\* resolves with a value and rejects with an error of its own.
\* ---------------------------------------------------------------------------
Sessions == {1, 2}

OwnValue(s) == IF s = 1 THEN "ok" ELSE "uptime"
OwnError(s) ==
    [isError |-> TRUE,
     message |-> IF s = 1 THEN "connect ECONNREFUSED"
                          ELSE "saw http status code 503"]

twoFrame == <<retryVars, awaitVars, probeVars, deployVars, outputsVars>>

InitTwo ==
    /\ RetryIdle
    /\ AwaitIdle
    /\ ProbeIdle
    /\ DeployIdle
    /\ OutputsIdle
    /\ now \in StartTimes
    /\ \E t \in [Sessions -> 0..MaxTwoTries], d \in [Sessions -> TwoDelays] :
          \E sc \in [Sessions -> UNION {[1..n -> BOOLEAN] : n \in 0..MaxTwoTries}] :
              /\ \A s \in Sessions : Len(sc[s]) = t[s]
              /\ sessions = [s \in Sessions |->
                    [pc |-> "loop", tries |-> t[s], delay |-> d[s],
                     errors |-> <<>>, result |-> NoValue, thrown |-> <<>>,
                     wakeAt |-> 0, calls |-> 0, script |-> sc[s]]]

\* session s: while (errors.length < tries) { try { return await fn();
TwoCall(s) ==
    /\ sessions[s].pc = "loop"
    /\ Len(sessions[s].errors) < sessions[s].tries
    /\ sessions' = [sessions EXCEPT ![s].pc = "awaitFn",
                                    ![s].calls = @ + 1]
    /\ UNCHANGED now
    /\ UNCHANGED twoFrame

\* session s: fn() resolves: return await fn();
TwoResolve(s) ==
    /\ sessions[s].pc = "awaitFn"
    /\ sessions[s].script[sessions[s].calls]
    /\ sessions' = [sessions EXCEPT ![s].pc = "returned",
                                    ![s].result = OwnValue(s)]
    /\ UNCHANGED now
    /\ UNCHANGED twoFrame

\* variant: errors is one array of the module, shared by all calls of retry
TwoReject_SharedErrors(s) ==
    /\ sessions[s].pc = "awaitFn"
    /\ ~sessions[s].script[sessions[s].calls]
    /\ sessions' = [sessions EXCEPT
            ![s].pc = "sleeping",
            ![s].wakeAt = now + sessions[s].delay,
            ![1].errors = Append(@, [date |-> now, err |-> OwnError(s)])]
    /\ UNCHANGED now
    /\ UNCHANGED twoFrame

\* session s: fn() rejects:
\* catch (err) { errors.push({date: new Date(), err}); await sleep(delay);
TwoReject(s) ==
    /\ sessions[s].pc = "awaitFn"
    /\ ~sessions[s].script[sessions[s].calls]
    /\ sessions' = [sessions EXCEPT
            ![s].pc = "sleeping",
            ![s].wakeAt = now + sessions[s].delay,
            ![s].errors = Append(@, [date |-> now, err |-> OwnError(s)])]
    /\ UNCHANGED now
    /\ UNCHANGED twoFrame

\* session s: the timer of its sleep fires, when it is due or later: the
\* clock is then at wakeAt at least
TwoSleepDone(s) ==
    /\ sessions[s].pc = "sleeping"
    /\ now' = Max(now, sessions[s].wakeAt)
    /\ sessions' = [sessions EXCEPT ![s].pc = "loop"]
    /\ UNCHANGED twoFrame

\* session s: the loop ends: throw new Error(`retry failed: ${...}`)
TwoThrow(s) ==
    /\ sessions[s].pc = "loop"
    /\ ~(Len(sessions[s].errors) < sessions[s].tries)
    /\ sessions' = [sessions EXCEPT
            ![s].pc = "thrown",
            ![s].thrown = FormatErrors(sessions[s].errors)]
    /\ UNCHANGED now
    /\ UNCHANGED twoFrame

NextTwo ==
    \E s \in Sessions :
        \/ TwoCall(s)
        \/ TwoResolve(s)
        \/ TwoReject(s)
        \/ TwoSleepDone(s)
        \/ TwoThrow(s)

SpecTwo == InitTwo /\ [][NextTwo]_vars

\* what a session with that script does when it runs alone: it invokes the
\* operation up to the first invocation that resolves, or tries times
AloneCalls(t, script) ==
    IF \E i \in 1..t : script[i]
    THEN CHOOSE i \in 1..t : script[i] /\ \A j \in 1..(i - 1) : ~script[j]
    ELSE t

AloneReturns(t, script) == \E i \in 1..t : script[i]

\* C14: under every interleaving of two sessions, each session makes the
\* attempts, holds the records and ends the way it does alone, and its
\* records and its message hold errors of its own operation only.
C14_SessionsIndependent ==
    \A s \in Sessions :
        LET me == sessions[s]
            n == AloneCalls(me.tries, me.script)
            returns == AloneReturns(me.tries, me.script)
        IN  /\ me.calls <= n
            /\ Len(me.errors) <= me.calls
            /\ \A i \in 1..Len(me.errors) : me.errors[i].err = OwnError(s)
            /\ me.pc = "returned" =>
                   /\ returns
                   /\ me.calls = n
                   /\ Len(me.errors) = n - 1
                   /\ me.result = OwnValue(s)
                   /\ me.thrown = <<>>
            /\ me.pc = "thrown" =>
                   /\ ~returns
                   /\ me.calls = n
                   /\ Len(me.errors) = n
                   /\ me.result = NoValue
                   /\ Len(me.thrown) = n
                   /\ \A i \in 1..n :
                          me.thrown[i].json = serializeError(OwnError(s))

\* both sessions failed twice while the other one was running
C14_Witness ==
    /\ sessions[1].pc = "thrown"
    /\ sessions[2].pc = "thrown"
    /\ Len(sessions[1].errors) = 2
    /\ Len(sessions[2].errors) = 2
    /\ sessions[1].errors[1].date <= sessions[2].errors[1].date
    /\ sessions[2].errors[1].date <= sessions[1].errors[2].date
    /\ sessions[1].delay = 1

====
